---- MODULE Spec2Model ----
(***************************************************************************)
(* Model of tensorflow/compiler/jit/device_util.cc: the DeviceSet bitset,  *)
(* the DeviceInfoCache interning registry and the XLA device picker.       *)
(***************************************************************************)
EXTENDS Integers, Sequences, FiniteSets, TLC

VARIABLES names_, id_to_device_type_, is_cpu_, is_gpu_,
          id_to_compilation_device_, name_to_id_, storage_, other_, ret

cache == <<names_, id_to_device_type_, is_cpu_, is_gpu_,
           id_to_compilation_device_, name_to_id_>>
vars == <<names_, id_to_device_type_, is_cpu_, is_gpu_,
          id_to_compilation_device_, name_to_id_, storage_, other_, ret>>

(* Bound on the number of entries of names_ (the cache grows without limit). *)
MaxNames == 4

(* Bound on the number of storage words of the DeviceSets that are built  *)
(* from arbitrary ids (storage grows without limit).                       *)
MaxWords == 2

(* Width of one storage word of a DeviceSet. *)
kWordSize == 64

DEVICE_CPU == "CPU"
DEVICE_GPU == "GPU"

(* The device names callers pass to GetIdFor: the empty name, a name the   *)
(* name parser rejects, and two names of each device class.                *)
Names ==
  {"", "not-a-device", "/device:CPU:0", "/device:CPU:1", "/device:GPU:0",
   "/device:GPU:1", "/device:XLA_CPU:0", "/device:FOO:0"}

(* The name parser: ok is FALSE for a malformed name, otherwise type is    *)
(* the device-type string of the parsed name.                              *)
ParseFullName(device) ==
  CASE device \in {"/device:CPU:0", "/device:CPU:1"} -> [ok |-> TRUE, type |-> "CPU"]
    [] device \in {"/device:GPU:0", "/device:GPU:1"} -> [ok |-> TRUE, type |-> "GPU"]
    [] device = "/device:XLA_CPU:0" -> [ok |-> TRUE, type |-> "XLA_CPU"]
    [] device = "/device:FOO:0" -> [ok |-> TRUE, type |-> "FOO"]
    [] OTHER -> [ok |-> FALSE, type |-> ""]

(* The compilation-device registry: found is FALSE when no backend is      *)
(* registered for the device type.                                         *)
GetCompilationDevice(type) ==
  CASE type = "CPU" -> [found |-> TRUE, registration |-> "XLA_CPU_JIT"]
    [] type = "GPU" -> [found |-> TRUE, registration |-> "XLA_GPU_JIT"]
    [] type = "XLA_CPU" -> [found |-> TRUE, registration |-> "XLA_CPU_JIT"]
    [] OTHER -> [found |-> FALSE, registration |-> "uninitialized"]

nullptr == "nullptr"

(* Status values.  TF_RET_CHECK fails with an internal error.              *)
OkStatus == [code |-> "OK", msg |-> ""]
Internal(msg) == [code |-> "INTERNAL", msg |-> msg]
RetCheckFailure(msg) == Internal(msg)

(* absl::nullopt, and the id field of a result that carries no id. *)
nullopt == -1

(* The result of the last call: op and its arguments (name, allow), the    *)
(* returned status, and the returned value (id for GetIdFor and            *)
(* PickDeviceForXla, can for CanPickDeviceForXla).  devices, gpu and cpu   *)
(* are the DeviceSet a picker call ran on and what IsGpu/IsCpu answered    *)
(* there; visited lists the devices the picker's scan was called with.     *)
NoRet ==
  [op |-> "none", name |-> "", allow |-> FALSE, status |-> OkStatus,
   id |-> nullopt, can |-> FALSE, devices |-> <<>>, gpu |-> {}, cpu |-> {},
   visited |-> <<>>, text |-> ""]

Init ==
  /\ names_ = <<>>
  /\ id_to_device_type_ = <<>>
  /\ is_cpu_ = <<>>
  /\ is_gpu_ = <<>>
  /\ id_to_compilation_device_ = <<>>
  /\ name_to_id_ = <<>>
  /\ storage_ = <<>>
  /\ other_ = <<>>
  /\ ret = NoRet

(* DeviceNameToDeviceType: the status, and the value left in *device_type. *)
DeviceNameToDeviceType(device, device_type) ==
  LET parsed == ParseFullName(device)
  IN IF ~parsed.ok
       THEN [status |-> Internal("Malformed assigned device"),
             device_type |-> device_type]
       ELSE [status |-> OkStatus, device_type |-> parsed.type]

(* Intern taking the new id from the size of is_cpu_. *)
Intern_IdFromIsCpu(name) ==
  LET new_id == Len(is_cpu_)
      conv == DeviceNameToDeviceType(name, "")
      device_type == conv.device_type
      found == GetCompilationDevice(device_type)
      compilation_device ==
        IF ~found.found THEN nullptr ELSE found.registration
  IN /\ Len(names_) < MaxNames
     /\ names_' = Append(names_, name)
     /\ id_to_device_type_' = Append(id_to_device_type_, device_type)
     /\ IF conv.status.code # "OK"
          THEN /\ ret' = [NoRet EXCEPT !.op = "GetIdFor", !.name = name,
                                       !.status = conv.status]
               /\ UNCHANGED <<is_cpu_, is_gpu_, name_to_id_,
                              id_to_compilation_device_>>
          ELSE /\ is_cpu_' = Append(is_cpu_, device_type = DEVICE_CPU)
               /\ is_gpu_' = Append(is_gpu_, device_type = DEVICE_GPU)
               /\ name_to_id_' = name_to_id_ @@ (name :> new_id)
               /\ id_to_compilation_device_' =
                    Append(id_to_compilation_device_, compilation_device)
               /\ ret' = [NoRet EXCEPT !.op = "GetIdFor", !.name = name,
                                       !.id = new_id]
     /\ UNCHANGED <<storage_, other_>>

(* GetIdFor for a name that is not in name_to_id_.  Ids are 0-based,      *)
(* sequences 1-based: the entry of id i is at index i + 1.                 *)
Intern(name) ==
  LET new_id == Len(names_)
      conv == DeviceNameToDeviceType(name, "")
      device_type == conv.device_type
      found == GetCompilationDevice(device_type)
      compilation_device ==
        IF ~found.found THEN nullptr ELSE found.registration
  IN /\ Len(names_) < MaxNames
     /\ names_' = Append(names_, name)
     /\ id_to_device_type_' = Append(id_to_device_type_, device_type)
     /\ IF conv.status.code # "OK"
          THEN /\ ret' = [NoRet EXCEPT !.op = "GetIdFor", !.name = name,
                                       !.status = conv.status]
               /\ UNCHANGED <<is_cpu_, is_gpu_, name_to_id_,
                              id_to_compilation_device_>>
          ELSE /\ is_cpu_' = Append(is_cpu_, device_type = DEVICE_CPU)
               /\ is_gpu_' = Append(is_gpu_, device_type = DEVICE_GPU)
               /\ name_to_id_' = name_to_id_ @@ (name :> new_id)
               /\ id_to_compilation_device_' =
                    Append(id_to_compilation_device_, compilation_device)
               /\ ret' = [NoRet EXCEPT !.op = "GetIdFor", !.name = name,
                                       !.id = new_id]
     /\ UNCHANGED <<storage_, other_>>

(* GetIdFor without its check of the name. *)
GetIdFor_Unchecked(name) ==
  IF name \in DOMAIN name_to_id_
    THEN /\ ret' = [NoRet EXCEPT !.op = "GetIdFor", !.name = name,
                                 !.id = name_to_id_[name]]
         /\ UNCHANGED <<cache, storage_, other_>>
    ELSE Intern(name)

(* GetIdFor without the lookup of the name in name_to_id_. *)
GetIdFor_NoLookup(name) ==
  IF name = ""
    THEN /\ ret' = [NoRet EXCEPT !.op = "GetIdFor", !.name = name,
                                 !.status = RetCheckFailure("!name.empty()")]
         /\ UNCHANGED <<cache, storage_, other_>>
    ELSE Intern(name)

(* DeviceInfoCache::GetIdFor(name). *)
GetIdFor(name) ==
  IF name = ""
    THEN /\ ret' = [NoRet EXCEPT !.op = "GetIdFor", !.name = name,
                                 !.status = RetCheckFailure("!name.empty()")]
         /\ UNCHANGED <<cache, storage_, other_>>
  ELSE IF name \in DOMAIN name_to_id_
    THEN /\ ret' = [NoRet EXCEPT !.op = "GetIdFor", !.name = name,
                                 !.id = name_to_id_[name]]
         /\ UNCHANGED <<cache, storage_, other_>>
  ELSE Intern(name)

(* ---------------------------------------------------------------------- *)
(* DeviceSet: storage_ is a sequence of words, word w (0-based) at index  *)
(* w + 1; a word is the set of its bit positions that are 1, so the word  *)
(* 0 is {} and w | (1ull << b) is w \cup {b}.                             *)
(* ---------------------------------------------------------------------- *)

(* storage.resize(n, 0) when n is larger than the current size. *)
Resize(storage, n) ==
  [i \in 1..n |-> IF i <= Len(storage) THEN storage[i] ELSE {}]

(* Insert with &= in place of |=. *)
DeviceSetInsert_And(storage, device_id) ==
  LET word_index == device_id \div kWordSize
      bit_index == device_id % kWordSize
      grown == IF word_index >= Len(storage)
                 THEN Resize(storage, word_index + 1)
                 ELSE storage
  IN [grown EXCEPT ![word_index + 1] = @ \cap {bit_index}]

(* DeviceSet::Insert(device_id) on the given storage. *)
DeviceSetInsert(storage, device_id) ==
  LET word_index == device_id \div kWordSize
      bit_index == device_id % kWordSize
      grown == IF word_index >= Len(storage)
                 THEN Resize(storage, word_index + 1)
                 ELSE storage
  IN [grown EXCEPT ![word_index + 1] = @ \cup {bit_index}]

(* UnionWith without the resize, or-ing the words both storages have. *)
DeviceSetUnionWith_NoResize(storage, other) ==
  [i \in 1..Len(storage) |->
     IF i <= Len(other) THEN storage[i] \cup other[i] ELSE storage[i]]

(* DeviceSet::UnionWith(other) on the given storage. *)
DeviceSetUnionWith(storage, other) ==
  LET grown == IF Len(other) > Len(storage)
                 THEN Resize(storage, Len(other))
                 ELSE storage
  IN [i \in 1..Len(grown) |->
        IF i <= Len(other) THEN grown[i] \cup other[i] ELSE grown[i]]

(* IsEmpty testing whether any word is zero instead of all. *)
IsEmpty_AnyOf(storage) == \E i \in 1..Len(storage) : storage[i] = {}

(* DeviceSet::IsEmpty(). *)
IsEmpty(storage) == \A i \in 1..Len(storage) : storage[i] = {}

(* The ids whose bit is set. *)
Members(storage) ==
  UNION {{(w - 1) * kWordSize + b : b \in storage[w]} : w \in 1..Len(storage)}

RECURSIVE Ascending(_)
Ascending(S) ==
  IF S = {} THEN <<>>
  ELSE LET m == CHOOSE x \in S : \A y \in S : x <= y
       IN <<m>> \o Ascending(S \ {m})

(* The order in which DeviceSet::ForEach hands the ids to its visitor:     *)
(* word-major, then bit-minor, which is ascending id order.                *)
ForEachOrder(storage) == Ascending(Members(storage))

(* DeviceInfoCache::GetNameFor(device_id). *)
GetNameFor(device_id) == names_[device_id + 1]

(* absl::StrJoin(names, separator). *)
RECURSIVE StrJoin(_, _)
StrJoin(names, separator) ==
  IF Len(names) = 0 THEN ""
  ELSE IF Len(names) = 1 THEN names[1]
  ELSE names[1] \o separator \o StrJoin(Tail(names), separator)

(* The visitor lambda of DebugString: the names collected so far and the  *)
(* value it returns.                                                       *)
DebugStringVisit(names, device_id) ==
  [names |-> Append(names, GetNameFor(device_id)), continue |-> FALSE]

(* device_set.ForEach(visitor) in DebugString: stops at the first visit   *)
(* that returns false.                                                     *)
RECURSIVE DebugStringScan(_, _, _)
DebugStringScan(order, i, names) ==
  IF i > Len(order) THEN names
  ELSE LET t == DebugStringVisit(names, order[i])
       IN IF t.continue THEN DebugStringScan(order, i + 1, t.names)
          ELSE t.names

(* DeviceInfoCache::DebugString(device_set): the string it returns. *)
DebugStringOf(device_set) ==
  "[" \o StrJoin(DebugStringScan(ForEachOrder(device_set), 1, <<>>), ",") \o "]"

(* ---------------------------------------------------------------------- *)
(* The picker.  IsGpu and IsCpu are the sets of ids for which the cache's *)
(* IsGpu / IsCpu answer true.                                             *)
(* ---------------------------------------------------------------------- *)

ScanInit ==
  [maybe_gpu_device |-> nullopt, maybe_cpu_device |-> nullopt,
   maybe_unknown_device |-> nullopt, multiple_cpu_devices |-> FALSE,
   multiple_gpu_devices |-> FALSE, multiple_unknown_devices |-> FALSE,
   continue |-> TRUE, visited |-> <<>>]

(* The visitor overwriting the remembered device of a bucket instead of   *)
(* flagging the second one.                                                *)
Visit_Overwrite(IsGpu, IsCpu, s, device) ==
  LET v == [s EXCEPT !.visited = Append(@, device)]
  IN IF device \in IsGpu THEN [v EXCEPT !.maybe_gpu_device = device]
     ELSE IF device \in IsCpu THEN [v EXCEPT !.maybe_cpu_device = device]
     ELSE [v EXCEPT !.maybe_unknown_device = device]

(* The visitor flagging the second device of a bucket but returning true. *)
Visit_NoStop(IsGpu, IsCpu, s, device) ==
  LET v == [s EXCEPT !.visited = Append(@, device)]
  IN IF device \in IsGpu
       THEN IF v.maybe_gpu_device # nullopt
              THEN [v EXCEPT !.multiple_gpu_devices = TRUE]
              ELSE [v EXCEPT !.maybe_gpu_device = device]
     ELSE IF device \in IsCpu
       THEN IF v.maybe_cpu_device # nullopt
              THEN [v EXCEPT !.multiple_cpu_devices = TRUE]
              ELSE [v EXCEPT !.maybe_cpu_device = device]
     ELSE IF v.maybe_unknown_device # nullopt
              THEN [v EXCEPT !.multiple_unknown_devices = TRUE]
              ELSE [v EXCEPT !.maybe_unknown_device = device]

(* The visitor lambda of PickDeviceForXlaImpl; continue is its return value. *)
Visit(IsGpu, IsCpu, s, device) ==
  LET v == [s EXCEPT !.visited = Append(@, device)]
  IN IF device \in IsGpu
       THEN IF v.maybe_gpu_device # nullopt
              THEN [v EXCEPT !.multiple_gpu_devices = TRUE, !.continue = FALSE]
              ELSE [v EXCEPT !.maybe_gpu_device = device]
     ELSE IF device \in IsCpu
       THEN IF v.maybe_cpu_device # nullopt
              THEN [v EXCEPT !.multiple_cpu_devices = TRUE, !.continue = FALSE]
              ELSE [v EXCEPT !.maybe_cpu_device = device]
     ELSE IF v.maybe_unknown_device # nullopt
              THEN [v EXCEPT !.multiple_unknown_devices = TRUE, !.continue = FALSE]
              ELSE [v EXCEPT !.maybe_unknown_device = device]

(* devices.ForEach(visitor): stops at the first visit that returns false. *)
RECURSIVE Scan(_, _, _, _, _)
Scan(IsGpu, IsCpu, order, i, s) ==
  IF i > Len(order) THEN s
  ELSE LET t == Visit(IsGpu, IsCpu, s, order[i])
       IN IF t.continue THEN Scan(IsGpu, IsCpu, order, i + 1, t) ELSE t

(* FAILED_TO_PICK_DEVICE returning the failing status in both forms. *)
FAILED_TO_PICK_DEVICE_AlwaysStatus(r, has_can_pick, failing_status) ==
  [r EXCEPT !.status = failing_status]

(* FAILED_TO_PICK_DEVICE(failing_status): r is the result so far. *)
FAILED_TO_PICK_DEVICE(r, has_can_pick, failing_status) ==
  IF has_can_pick
    THEN [r EXCEPT !.status = OkStatus, !.can_pick_device = FALSE]
    ELSE [r EXCEPT !.status = failing_status]

(* The conflict checks with the test of the flag inverted. *)
Conflict_FlagInverted(s, allow_mixing_unknown_and_cpu) ==
  IF s.multiple_cpu_devices THEN Internal("Multiple CPU devices")
  ELSE IF s.multiple_gpu_devices THEN Internal("Multiple GPU devices")
  ELSE IF s.multiple_unknown_devices THEN Internal("Multiple unknown devices")
  ELSE IF s.maybe_unknown_device # nullopt /\ s.maybe_gpu_device # nullopt
    THEN Internal("Found both unknown and GPU devices")
  ELSE IF /\ allow_mixing_unknown_and_cpu
          /\ s.maybe_unknown_device # nullopt
          /\ s.maybe_cpu_device # nullopt
    THEN Internal("Found both unknown and CPU devices")
  ELSE OkStatus

(* The conflict checks without the check of unknown with GPU. *)
Conflict_NoUnknownGpu(s, allow_mixing_unknown_and_cpu) ==
  IF s.multiple_cpu_devices THEN Internal("Multiple CPU devices")
  ELSE IF s.multiple_gpu_devices THEN Internal("Multiple GPU devices")
  ELSE IF s.multiple_unknown_devices THEN Internal("Multiple unknown devices")
  ELSE IF /\ ~allow_mixing_unknown_and_cpu
          /\ s.maybe_unknown_device # nullopt
          /\ s.maybe_cpu_device # nullopt
    THEN Internal("Found both unknown and CPU devices")
  ELSE OkStatus

(* The conflict checks with the flag ignored: unknown with CPU always     *)
(* fails.                                                                  *)
Conflict_FlagIgnored(s, allow_mixing_unknown_and_cpu) ==
  IF s.multiple_cpu_devices THEN Internal("Multiple CPU devices")
  ELSE IF s.multiple_gpu_devices THEN Internal("Multiple GPU devices")
  ELSE IF s.multiple_unknown_devices THEN Internal("Multiple unknown devices")
  ELSE IF s.maybe_unknown_device # nullopt /\ s.maybe_gpu_device # nullopt
    THEN Internal("Found both unknown and GPU devices")
  ELSE IF s.maybe_unknown_device # nullopt /\ s.maybe_cpu_device # nullopt
    THEN Internal("Found both unknown and CPU devices")
  ELSE OkStatus

(* The conflict checks with unknown with CPU tested before unknown with   *)
(* GPU.                                                                    *)
Conflict_CpuMixingFirst(s, allow_mixing_unknown_and_cpu) ==
  IF s.multiple_cpu_devices THEN Internal("Multiple CPU devices")
  ELSE IF s.multiple_gpu_devices THEN Internal("Multiple GPU devices")
  ELSE IF s.multiple_unknown_devices THEN Internal("Multiple unknown devices")
  ELSE IF /\ ~allow_mixing_unknown_and_cpu
          /\ s.maybe_unknown_device # nullopt
          /\ s.maybe_cpu_device # nullopt
    THEN Internal("Found both unknown and CPU devices")
  ELSE IF s.maybe_unknown_device # nullopt /\ s.maybe_gpu_device # nullopt
    THEN Internal("Found both unknown and GPU devices")
  ELSE OkStatus

(* The conflict checks that follow the scan: the failing status of the    *)
(* first check that fires, OkStatus when none does.                        *)
Conflict(s, allow_mixing_unknown_and_cpu) ==
  IF s.multiple_cpu_devices THEN Internal("Multiple CPU devices")
  ELSE IF s.multiple_gpu_devices THEN Internal("Multiple GPU devices")
  ELSE IF s.multiple_unknown_devices THEN Internal("Multiple unknown devices")
  ELSE IF s.maybe_unknown_device # nullopt /\ s.maybe_gpu_device # nullopt
    THEN Internal("Found both unknown and GPU devices")
  ELSE IF /\ ~allow_mixing_unknown_and_cpu
          /\ s.maybe_unknown_device # nullopt
          /\ s.maybe_cpu_device # nullopt
    THEN Internal("Found both unknown and CPU devices")
  ELSE OkStatus

(* The assignment to *out_device_picked without the unknown-class branch. *)
Select_NoUnknown(s) ==
  IF s.maybe_gpu_device # nullopt THEN s.maybe_gpu_device
  ELSE s.maybe_cpu_device

(* The assignment to *out_device_picked preferring the CPU device. *)
Select_CpuFirst(s) ==
  IF s.maybe_cpu_device # nullopt THEN s.maybe_cpu_device
  ELSE IF s.maybe_unknown_device # nullopt THEN s.maybe_unknown_device
  ELSE s.maybe_gpu_device

(* The assignment to *out_device_picked. *)
Select(s) ==
  IF s.maybe_gpu_device # nullopt THEN s.maybe_gpu_device
  ELSE IF s.maybe_unknown_device # nullopt THEN s.maybe_unknown_device
  ELSE s.maybe_cpu_device

(* PickDeviceForXlaImpl.  has_can_pick / has_device_picked say which of   *)
(* the two out pointers is not null.  can_pick_device is meaningful only  *)
(* when has_can_pick; device_picked is the optional the caller passed,    *)
(* nullopt unless it was assigned, and assigned says that it was (from an *)
(* empty optional when device_picked is still nullopt).                    *)
PickDeviceForXlaImpl(IsGpu, IsCpu, devices, allow_mixing_unknown_and_cpu, has_can_pick, has_device_picked) ==
  LET r0 == [status |-> OkStatus, can_pick_device |-> has_can_pick,
             device_picked |-> nullopt, assigned |-> FALSE,
             visited |-> <<>>]
  IN IF IsEmpty(devices)
       THEN [r0 EXCEPT !.status = RetCheckFailure("No devices to choose from")]
     ELSE
       LET s == Scan(IsGpu, IsCpu, ForEachOrder(devices), 1, ScanInit)
           r == [r0 EXCEPT !.visited = s.visited]
           failing_status == Conflict(s, allow_mixing_unknown_and_cpu)
       IN IF failing_status.code # "OK"
            THEN FAILED_TO_PICK_DEVICE(r, has_can_pick, failing_status)
          ELSE IF has_device_picked
            THEN [r EXCEPT !.device_picked = Select(s), !.assigned = TRUE]
          ELSE r

(* The ids GetIdFor has returned so far. *)
ReturnedIds == {name_to_id_[n] : n \in DOMAIN name_to_id_}

(* What IsGpu / IsCpu answer for the ids of a set: the entry of is_gpu_ / *)
(* is_cpu_ where the id is within the sequence, and any value where the   *)
(* read is past its end.                                                  *)
InBounds(ids) == {d \in ids : d < Len(is_gpu_)}
Classifications(ids) ==
  {[gpu |-> {d \in InBounds(ids) : is_gpu_[d + 1]} \cup g,
    cpu |-> {d \in InBounds(ids) : is_cpu_[d + 1]} \cup c] :
     g \in SUBSET (ids \ InBounds(ids)), c \in SUBSET (ids \ InBounds(ids))}

(* devices.Insert(id) by a caller holding an id GetIdFor returned. *)
Insert(device_id) ==
  /\ storage_' = DeviceSetInsert(storage_, device_id)
  /\ ret' = [NoRet EXCEPT !.op = "Insert"]
  /\ UNCHANGED <<cache, other_>>

(* PickDeviceForXla(device_info_cache, devices, allow). *)
PickDeviceForXla(allow_mixing_unknown_and_cpu) ==
  \E cls \in Classifications(Members(storage_)) :
    LET r == PickDeviceForXlaImpl(cls.gpu, cls.cpu, storage_,
                                  allow_mixing_unknown_and_cpu, FALSE, TRUE)
        call == [NoRet EXCEPT !.op = "PickDeviceForXla",
                              !.allow = allow_mixing_unknown_and_cpu,
                              !.devices = storage_, !.gpu = cls.gpu,
                              !.cpu = cls.cpu \ cls.gpu,
                              !.visited = r.visited, !.status = r.status]
    IN /\ IF r.status.code # "OK"
            THEN ret' = call
            ELSE \E device \in (IF r.device_picked = nullopt
                                  THEN 0..MaxNames ELSE {r.device_picked}) :
                   ret' = [call EXCEPT !.id = device]
       /\ UNCHANGED <<cache, storage_, other_>>

(* CanPickDeviceForXla(device_info_cache, devices, allow). *)
CanPickDeviceForXla(allow_mixing_unknown_and_cpu) ==
  \E cls \in Classifications(Members(storage_)) :
    LET r == PickDeviceForXlaImpl(cls.gpu, cls.cpu, storage_,
                                  allow_mixing_unknown_and_cpu, TRUE, FALSE)
        call == [NoRet EXCEPT !.op = "CanPickDeviceForXla",
                              !.allow = allow_mixing_unknown_and_cpu,
                              !.devices = storage_, !.gpu = cls.gpu,
                              !.cpu = cls.cpu \ cls.gpu,
                              !.visited = r.visited, !.status = r.status]
    IN /\ IF r.status.code # "OK"
            THEN ret' = call
            ELSE ret' = [call EXCEPT !.can = r.can_pick_device]
       /\ UNCHANGED <<cache, storage_, other_>>

(* other.Insert(id) on the second DeviceSet. *)
InsertOther(device_id) ==
  /\ other_' = DeviceSetInsert(other_, device_id)
  /\ ret' = [NoRet EXCEPT !.op = "InsertOther"]
  /\ UNCHANGED <<cache, storage_>>

(* devices.UnionWith(other). *)
UnionWith ==
  /\ storage_' = DeviceSetUnionWith(storage_, other_)
  /\ ret' = [NoRet EXCEPT !.op = "UnionWith"]
  /\ UNCHANGED <<cache, other_>>

(* device_info_cache.DebugString(devices). *)
DebugString ==
  /\ ret' = [NoRet EXCEPT !.op = "DebugString", !.devices = storage_,
                          !.text = DebugStringOf(storage_)]
  /\ UNCHANGED <<cache, storage_, other_>>

(* The names of Names the name parser does not reject. *)
ParseableNames == {name \in Names : name = "" \/ ParseFullName(name).ok}

(* A caller of the picker: it interns the device names of its nodes,      *)
(* all of which parse, inserts the ids into its DeviceSet and picks.       *)
Next ==
  \/ \E name \in ParseableNames : GetIdFor(name)
  \/ \E device_id \in ReturnedIds : Insert(device_id)
  \/ \E allow \in BOOLEAN : PickDeviceForXla(allow)
  \/ \E allow \in BOOLEAN : CanPickDeviceForXla(allow)

(* The same caller with names the parser rejects among its names. *)
NextAll ==
  \/ \E name \in Names : GetIdFor(name)
  \/ \E device_id \in ReturnedIds : Insert(device_id)
  \/ \E allow \in BOOLEAN : PickDeviceForXla(allow)
  \/ \E allow \in BOOLEAN : CanPickDeviceForXla(allow)

(* The cache alone: callers only intern names. *)
NextCache == \E name \in Names : GetIdFor(name)

Spec == Init /\ [][Next]_vars

SpecCache == Init /\ [][NextCache]_vars

SpecAll == Init /\ [][NextAll]_vars

(* The ids put into the two DeviceSets on their own: the first and the    *)
(* last bit of each of the first MaxWords words.                           *)
SetIds ==
  {w * kWordSize + b : w \in 0..(MaxWords - 1), b \in {0, kWordSize - 1}}

(* Two DeviceSets on their own: devices is inserted into and united with  *)
(* other, other is only inserted into.                                     *)
NextSet ==
  \/ \E device_id \in SetIds : Insert(device_id)
  \/ \E device_id \in SetIds : InsertOther(device_id)
  \/ UnionWith

SpecSet == Init /\ [][NextSet]_vars

(* A caller that renders its DeviceSet for a diagnostic message. *)
NextDebug ==
  \/ \E name \in ParseableNames : GetIdFor(name)
  \/ \E device_id \in ReturnedIds : Insert(device_id)
  \/ DebugString

SpecDebug == Init /\ [][NextDebug]_vars

(* ---------------------------------------------------------------------- *)
(* The picker's contract, stated on the result of the last call.          *)
(* ---------------------------------------------------------------------- *)

PickCall == ret.op = "PickDeviceForXla"
CanPickCall == ret.op = "CanPickDeviceForXla"
PickerCall == PickCall \/ CanPickCall

(* The devices of the set the call ran on, by the class the cache gave them. *)
RetMembers == Members(ret.devices)
RetGpus == RetMembers \cap ret.gpu
RetCpus == (RetMembers \cap ret.cpu) \ ret.gpu
RetUnknowns == RetMembers \ (ret.gpu \cup ret.cpu)

(* The call did not pick: an error from the must-succeed form, false from *)
(* the can-pick form.                                                      *)
RetFailed ==
  IF PickCall THEN ret.status.code # "OK"
  ELSE ret.status.code = "OK" /\ ~ret.can
RetPicked ==
  IF PickCall THEN ret.status.code = "OK"
  ELSE ret.status.code = "OK" /\ ret.can

(* The other form of the picker, run on the inputs of the last call. *)
MustSucceedForm ==
  PickDeviceForXlaImpl(ret.gpu, ret.cpu, ret.devices, ret.allow, FALSE, TRUE)
CanPickForm ==
  PickDeviceForXlaImpl(ret.gpu, ret.cpu, ret.devices, ret.allow, TRUE, FALSE)

(* C1 as stated: on every input, the empty DeviceSet included, the        *)
(* can-pick form returns a boolean, false where the must-succeed form     *)
(* fails and true where it succeeds.                                      *)
C1_CanPickIsBooleanOnEveryInput ==
  /\ CanPickCall =>
       /\ ret.status.code = "OK"
       /\ ret.can = (MustSucceedForm.status.code = "OK")
  /\ PickCall =>
       /\ CanPickForm.status.code = "OK"
       /\ (ret.status.code = "OK") = CanPickForm.can_pick_device

(* C1 amended: on a non-empty DeviceSet the can-pick form returns false   *)
(* where the must-succeed form fails and true exactly where it succeeds   *)
(* with a device of the set; on the empty DeviceSet both forms return an  *)
(* error.                                                                  *)
C1_CanPickMirrorsPickOnNonEmpty ==
  /\ CanPickCall =>
       IF RetMembers = {}
         THEN ret.status.code # "OK" /\ MustSucceedForm.status.code # "OK"
         ELSE /\ ret.status.code = "OK"
              /\ ret.can = (MustSucceedForm.status.code = "OK")
              /\ ret.can => MustSucceedForm.device_picked \in RetMembers
  /\ PickCall =>
       IF RetMembers = {}
         THEN ret.status.code # "OK" /\ CanPickForm.status.code # "OK"
         ELSE /\ CanPickForm.status.code = "OK"
              /\ (ret.status.code = "OK") = CanPickForm.can_pick_device
              /\ ret.status.code = "OK" => ret.id \in RetMembers

(* C1 witnesses: the can-pick form answered false on a non-empty set.     *)
C1_Witness ==
  CanPickCall /\ RetMembers # {} /\ ret.status.code = "OK" /\ ~ret.can
    /\ Cardinality(RetMembers) >= 2

(* C2: a successful pick on a non-empty set returns the set's GPU, else   *)
(* its unknown-class device, else its CPU.                                 *)
C2_PickPriority ==
  (PickCall /\ ret.status.code = "OK" /\ RetMembers # {}) =>
    IF RetGpus # {} THEN RetGpus = {ret.id}
    ELSE IF RetUnknowns # {} THEN RetUnknowns = {ret.id}
    ELSE RetCpus = {ret.id}

(* C2 witness: one GPU and one CPU, picked with mixing not allowed.       *)
C2_Witness ==
  /\ PickCall /\ ret.status.code = "OK" /\ ~ret.allow
  /\ Cardinality(RetGpus) = 1 /\ Cardinality(RetCpus) = 1
  /\ RetUnknowns = {} /\ ret.id \in RetGpus

(* C3: a set with two or more devices of one class is never picked from.  *)
C3_DuplicateClassFails ==
  (PickerCall /\ (\/ Cardinality(RetGpus) >= 2
                  \/ Cardinality(RetCpus) >= 2
                  \/ Cardinality(RetUnknowns) >= 2)) => RetFailed

(* C3 witness: the two devices of one class are the last two of a set     *)
(* that also holds devices of other classes, and mixing is allowed.        *)
C3_Witness ==
  /\ CanPickCall /\ ret.allow /\ RetFailed
  /\ Cardinality(RetUnknowns) = 2 /\ Cardinality(RetCpus) = 1
  /\ \A c \in RetCpus : \A u \in RetUnknowns : c < u

(* C4: an unknown-class device together with a GPU device is never picked *)
(* from, whatever the flag and whether or not a CPU is present.            *)
C4_UnknownWithGpuFails ==
  (PickerCall /\ RetUnknowns # {} /\ RetGpus # {}) => RetFailed

(* C4 witness: unknown, GPU and CPU together, mixing allowed. *)
C4_Witness ==
  /\ PickCall /\ ret.allow /\ RetFailed
  /\ Cardinality(RetUnknowns) = 1 /\ Cardinality(RetGpus) = 1
  /\ Cardinality(RetCpus) = 1

(* C5: exactly one CPU and one unknown-class device: a conflict error     *)
(* without the flag, the unknown-class device with it.                     *)
C5_UnknownWithCpu ==
  (PickerCall /\ Cardinality(RetMembers) = 2 /\ Cardinality(RetCpus) = 1
     /\ Cardinality(RetUnknowns) = 1) =>
    IF ~ret.allow
      THEN /\ RetFailed
           /\ PickCall =>
                ret.status = Internal("Found both unknown and CPU devices")
      ELSE /\ RetPicked
           /\ PickCall => ret.id \in RetUnknowns

(* C5 witness: the flag set, the unknown-class device picked over a CPU   *)
(* of lower id.                                                            *)
C5_Witness ==
  /\ PickCall /\ ret.allow /\ ret.status.code = "OK"
  /\ Cardinality(RetMembers) = 2 /\ Cardinality(RetCpus) = 1
  /\ ret.id \in RetUnknowns /\ \A c \in RetCpus : c < ret.id

(* C5 witness of the other half: the same set refused without the flag.   *)
C5_WitnessRefused ==
  /\ PickCall /\ ~ret.allow /\ ret.status.code # "OK"
  /\ Cardinality(RetMembers) = 2 /\ Cardinality(RetCpus) = 1
  /\ Cardinality(RetUnknowns) = 1

(* C6: on an empty DeviceSet both forms return an internal error, no      *)
(* device is visited and no device or boolean answer is returned.          *)
C6_EmptySetIsInternalError ==
  (PickerCall /\ RetMembers = {}) =>
    /\ ret.status = Internal("No devices to choose from")
    /\ ret.visited = <<>>
    /\ ret.id = nullopt
    /\ ~ret.can

(* C6 witness: the can-pick form called on the empty set of a cache that  *)
(* holds devices.                                                          *)
C6_Witness ==
  /\ CanPickCall /\ RetMembers = {} /\ ret.status.code = "INTERNAL"
  /\ Len(is_cpu_) > 0

(* The class the cache gave a device of the last picker call. *)
RetClass(d) ==
  IF d \in ret.gpu THEN "GPU" ELSE IF d \in ret.cpu THEN "CPU" ELSE "unknown"

(* The conflicts (d) and (e), which involve one device of each class.     *)
MixingConflict ==
  IF RetUnknowns # {} /\ RetGpus # {}
    THEN Internal("Found both unknown and GPU devices")
  ELSE IF ~ret.allow /\ RetUnknowns # {} /\ RetCpus # {}
    THEN Internal("Found both unknown and CPU devices")
  ELSE OkStatus

(* C7 as stated: of the conflicts present in the set, the must-succeed    *)
(* form reports the first in the order multiple GPU, multiple CPU,        *)
(* multiple unknown, unknown with GPU, unknown with CPU.                   *)
C7_ReportsFirstConflictInPriorityOrder ==
  (PickCall /\ RetMembers # {}) =>
    ret.status =
      IF Cardinality(RetGpus) >= 2 THEN Internal("Multiple GPU devices")
      ELSE IF Cardinality(RetCpus) >= 2 THEN Internal("Multiple CPU devices")
      ELSE IF Cardinality(RetUnknowns) >= 2
        THEN Internal("Multiple unknown devices")
      ELSE MixingConflict

(* The devices that have a device of their own class before them in       *)
(* ascending id order.                                                     *)
RetSecondDevices ==
  {d \in RetMembers :
     \E e \in RetMembers : e < d /\ RetClass(e) = RetClass(d)}

(* C7 amended: when some class has more than one device, the              *)
(* must-succeed form reports the multiple-X conflict of the class whose   *)
(* second device comes first in ascending id order, whatever other        *)
(* conflicts the set has; otherwise it reports unknown with GPU before    *)
(* unknown with CPU (the latter only when mixing is not allowed).          *)
C7_ReportsFirstDuplicateInIdOrder ==
  (PickCall /\ RetMembers # {}) =>
    ret.status =
      IF RetSecondDevices # {}
        THEN LET first == CHOOSE d \in RetSecondDevices :
                            \A e \in RetSecondDevices : d <= e
             IN CASE RetClass(first) = "GPU" -> Internal("Multiple GPU devices")
                  [] RetClass(first) = "CPU" -> Internal("Multiple CPU devices")
                  [] OTHER -> Internal("Multiple unknown devices")
      ELSE MixingConflict

(* C7 witness: two GPUs and two CPUs, the second CPU before the second    *)
(* GPU, reported as multiple CPU devices.                                  *)
C7_Witness ==
  /\ PickCall /\ Cardinality(RetGpus) = 2 /\ Cardinality(RetCpus) = 2
  /\ ret.status = Internal("Multiple CPU devices")

(* C7 witness of the second half: unknown, GPU and CPU with mixing not    *)
(* allowed, reported as unknown with GPU.                                  *)
C7_WitnessMixing ==
  /\ PickCall /\ ~ret.allow /\ RetSecondDevices = {}
  /\ RetUnknowns # {} /\ RetGpus # {} /\ RetCpus # {}
  /\ ret.status = Internal("Found both unknown and GPU devices")

(* ---------------------------------------------------------------------- *)
(* The cache's contract, stated on GetIdFor steps.                        *)
(* ---------------------------------------------------------------------- *)

Range(f) == {f[i] : i \in DOMAIN f}

(* The step is a call of GetIdFor (ret' is its result). *)
GetIdForStep == ret'.op = "GetIdFor" /\ vars' # vars

(* The number of entries of each container of the cache. *)
Sizes ==
  <<Len(names_), Len(id_to_device_type_), Len(is_cpu_), Len(is_gpu_),
    Len(id_to_compilation_device_), Cardinality(DOMAIN name_to_id_)>>

(* C8: a GetIdFor call with a name seen before returns the id it got      *)
(* before and adds no entry; the first call with a new (non-empty) name   *)
(* adds exactly one entry to every container.                              *)
C8_GetIdForIdempotent ==
  [][(GetIdForStep /\ ret'.name # "") =>
       IF ret'.name \in Range(names_)
         THEN /\ Sizes' = Sizes
              /\ ret'.name \in DOMAIN name_to_id_
              /\ ret'.status.code = "OK"
              /\ ret'.id = name_to_id_[ret'.name]
         ELSE \A k \in 1..6 : Sizes'[k] = Sizes[k] + 1]_vars

(* C9: a GetIdFor call with a non-empty name the parser rejects returns   *)
(* an error and changes nothing in the cache.                              *)
C9_MalformedNameLeavesCacheUnchanged ==
  [][(GetIdForStep /\ ret'.name # "" /\ ~ParseFullName(ret'.name).ok) =>
       /\ ret'.status.code # "OK"
       /\ ret'.id = nullopt
       /\ UNCHANGED cache]_vars

C11_SequencesAligned ==
  \A k \in 1..5 : Sizes[k] = Cardinality(DOMAIN name_to_id_)

(* The names of the devices of a set in ascending id order. *)
NamesInIdOrder(device_set) ==
  LET order == Ascending(Members(device_set))
  IN [i \in 1..Len(order) |-> names_[order[i] + 1]]

(* C12: DebugString renders the name of every device of the set, once     *)
(* each, in ascending id order, comma-joined inside brackets.              *)
C12_DebugStringRendersEveryDevice ==
  ret.op = "DebugString" =>
    ret.text = "[" \o StrJoin(NamesInIdOrder(ret.devices), ",") \o "]"

(* ---------------------------------------------------------------------- *)
(* The DeviceSet's contract.                                              *)
(* ---------------------------------------------------------------------- *)

(* C13: after devices.UnionWith(other) an id is in devices iff it was in  *)
(* devices or in other before; other is unchanged; the same union again   *)
(* changes nothing; and other.UnionWith(devices) on the sets before gives *)
(* the same membership.                                                    *)
C13_UnionWithIsMembershipOr ==
  [][ret'.op = "UnionWith" =>
       /\ Members(storage_') = Members(storage_) \cup Members(other_)
       /\ other_' = other_
       /\ DeviceSetUnionWith(storage_', other_') = storage_'
       /\ Members(DeviceSetUnionWith(other_, storage_)) = Members(storage_')]_vars

(* C13 witness: a union with a set of longer storage, each set holding an *)
(* id the other did not have.                                              *)
C13_Witness ==
  /\ ret.op = "UnionWith" /\ Len(storage_) >= 2
  /\ Members(other_) # {} /\ Members(other_) # Members(storage_)
  /\ 0 \in Members(storage_) /\ ~(0 \in Members(other_))

(* C14: a fresh DeviceSet is empty; IsEmpty() is true after a step iff it *)
(* was true before and the step was no Insert, so it is true iff no       *)
(* insertion occurred; and a set that is not empty never becomes empty.    *)
C14_IsEmptyIffNoInsertion ==
  /\ IsEmpty(storage_) /\ IsEmpty(other_)
  /\ [][/\ IsEmpty(other_') = (IsEmpty(other_) /\ ret'.op # "InsertOther")
        /\ ret'.op = "Insert" => ~IsEmpty(storage_')
        /\ ~IsEmpty(storage_) => ~IsEmpty(storage_')]_vars

(* C14 witness: an insertion into a set that holds ids of two storage     *)
(* words.                                                                  *)
C14_Witness ==
  /\ ret.op = "InsertOther" /\ Len(other_) >= 2 /\ ~IsEmpty(other_)
  /\ Cardinality(Members(other_)) >= 2 /\ other_[1] # {}

(* ---------------------------------------------------------------------- *)
(* Ids and what the cache holds for them.                                 *)
(* ---------------------------------------------------------------------- *)

(* C15: no two names have the same id, a name keeps its id, every         *)
(* successful GetIdFor returns the id of its name, and the id of a new    *)
(* name is none that was returned before.                                  *)
C15_IdsUniqueAndStable ==
  [][/\ \A n \in DOMAIN name_to_id_ :
          n \in DOMAIN name_to_id_' /\ name_to_id_'[n] = name_to_id_[n]
     /\ \A m, n \in DOMAIN name_to_id_' :
          name_to_id_'[m] = name_to_id_'[n] => m = n
     /\ (GetIdForStep /\ ret'.status.code = "OK") =>
          /\ ret'.name \in DOMAIN name_to_id_'
          /\ ret'.id = name_to_id_'[ret'.name]
          /\ ret'.name \notin DOMAIN name_to_id_ => ret'.id \notin ReturnedIds]_vars

(* C15 witness: a name interned before a failing call with a malformed    *)
(* name and a later new name is asked for again and gets its first id.     *)
C15_Witness ==
  /\ ret.op = "GetIdFor" /\ ret.status.code = "OK" /\ ret.id = 0
  /\ Len(names_) >= 3 /\ names_[2] = "not-a-device"
  /\ Cardinality(DOMAIN name_to_id_) = 2

(* C16: for every id GetIdFor returned, the is-CPU, is-GPU and            *)
(* compilation-device entries at that id exist and are the ones computed  *)
(* from the name that got the id.                                          *)
C16_ClassificationBelongsToName ==
  \A n \in DOMAIN name_to_id_ :
    LET id == name_to_id_[n]
        type == ParseFullName(n).type
        found == GetCompilationDevice(type)
    IN /\ id < Len(is_cpu_)
       /\ id < Len(is_gpu_)
       /\ id < Len(id_to_compilation_device_)
       /\ is_cpu_[id + 1] = (type = DEVICE_CPU)
       /\ is_gpu_[id + 1] = (type = DEVICE_GPU)
       /\ id_to_compilation_device_[id + 1] =
            IF found.found THEN found.registration ELSE nullptr

(* ---------------------------------------------------------------------- *)
(* The picker's scan and its result.                                      *)
(* ---------------------------------------------------------------------- *)

(* The scan of the last picker call, run on the call's inputs. *)
RetScan == Scan(ret.gpu, ret.cpu, ForEachOrder(ret.devices), 1, ScanInit)

(* The lowest id of a class among the devices a scan visited, nullopt     *)
(* when it visited none of the class.                                      *)
LowestVisited(visited, class) ==
  LET seen == {visited[i] : i \in 1..Len(visited)}
      of_class == {d \in seen : RetClass(d) = class}
  IN IF of_class = {} THEN nullopt
     ELSE CHOOSE d \in of_class : \A e \in of_class : d <= e

(* C17: the scan visits the devices in ascending id order up to and       *)
(* including the first device that has a device of its class before it,   *)
(* and none after it; it sets the multiple flag of that device's class    *)
(* and no other; and each remembered device is the lowest-id device of    *)
(* its class among those visited.                                          *)
C17_ScanIsFailFast ==
  (PickerCall /\ RetMembers # {}) =>
    LET s == RetScan
        order == Ascending(RetMembers)
        flags == <<s.multiple_gpu_devices, s.multiple_cpu_devices,
                   s.multiple_unknown_devices>>
    IN /\ ret.visited = s.visited
       /\ Cardinality({k \in 1..3 : flags[k]}) <= 1
       /\ IF RetSecondDevices = {}
            THEN s.visited = order /\ flags = <<FALSE, FALSE, FALSE>>
            ELSE LET first == CHOOSE d \in RetSecondDevices :
                                \A e \in RetSecondDevices : d <= e
                 IN /\ s.visited =
                         SelectSeq(order, LAMBDA d : d <= first)
                    /\ flags = <<RetClass(first) = "GPU",
                                 RetClass(first) = "CPU",
                                 RetClass(first) = "unknown">>
       /\ s.maybe_gpu_device = LowestVisited(s.visited, "GPU")
       /\ s.maybe_cpu_device = LowestVisited(s.visited, "CPU")
       /\ s.maybe_unknown_device = LowestVisited(s.visited, "unknown")

(* C17 witness: the scan stopped at a second CPU with two devices of the  *)
(* set still unvisited.                                                    *)
C17_Witness ==
  /\ PickCall /\ Cardinality(RetMembers) = 4 /\ Len(ret.visited) = 2
  /\ ret.status = Internal("Multiple CPU devices")

(* C18: a PickDeviceForXla that returns OK assigned its output from an    *)
(* optional that holds a device, and the device is in the input set; the  *)
(* scan of a non-empty set remembers a device in at least one bucket.      *)
C18_PickedDeviceIsMember ==
  /\ (PickCall /\ ret.status.code = "OK") =>
       /\ MustSucceedForm.assigned
       /\ MustSucceedForm.device_picked # nullopt
       /\ ret.id = MustSucceedForm.device_picked
       /\ ret.id \in RetMembers
  /\ (PickerCall /\ RetMembers # {}) =>
       \/ RetScan.maybe_gpu_device # nullopt
       \/ RetScan.maybe_cpu_device # nullopt
       \/ RetScan.maybe_unknown_device # nullopt

(* C18 witness: the only device of the set is an unknown-class device     *)
(* and it is the one picked.                                               *)
C18_Witness ==
  /\ PickCall /\ ret.status.code = "OK" /\ Cardinality(RetMembers) = 1
  /\ RetUnknowns = {ret.id}

(* C19: GetNameFor gives back, for the id of every interned name, that    *)
(* name.                                                                   *)
C19_GetNameForRoundTrips ==
  \A n \in DOMAIN name_to_id_ :
    /\ name_to_id_[n] < Len(names_)
    /\ GetNameFor(name_to_id_[n]) = n

(* C19 witness: names interned before and after failing calls with a      *)
(* malformed name.                                                         *)
C19_Witness ==
  /\ Len(names_) = 4 /\ names_[2] = "not-a-device"
  /\ names_[4] = "not-a-device" /\ Cardinality(DOMAIN name_to_id_) = 2

(* The must-succeed form on the inputs of the last call, with the flag    *)
(* false and with the flag true.                                           *)
PickWithoutMixing ==
  PickDeviceForXlaImpl(ret.gpu, ret.cpu, ret.devices, FALSE, FALSE, TRUE)
PickWithMixing ==
  PickDeviceForXlaImpl(ret.gpu, ret.cpu, ret.devices, TRUE, FALSE, TRUE)

(* C20: a pick that succeeds with the flag false succeeds with the flag   *)
(* true and returns the same device; the two outcomes differ only for a   *)
(* set of one unknown-class device and one CPU device and no GPU.          *)
C20_MixingFlagIsMonotone ==
  PickerCall =>
    /\ PickCall =>
         ret.status = (IF ret.allow THEN PickWithMixing
                                    ELSE PickWithoutMixing).status
    /\ PickWithoutMixing.status.code = "OK" =>
         /\ PickWithMixing.status.code = "OK"
         /\ PickWithMixing.device_picked = PickWithoutMixing.device_picked
    /\ (\/ PickWithoutMixing.status # PickWithMixing.status
        \/ PickWithoutMixing.device_picked # PickWithMixing.device_picked) =>
         /\ Cardinality(RetUnknowns) = 1
         /\ Cardinality(RetCpus) = 1
         /\ RetGpus = {}

(* C20 witness: a set the flag decides, asked with the flag true. *)
C20_Witness ==
  /\ CanPickCall /\ ret.allow /\ ret.can
  /\ PickWithoutMixing.status.code # "OK"
  /\ PickWithMixing.status.code = "OK"

====
